---- MODULE Spec2Model ----
(***************************************************************************)
(* Model of the multi-account Steam inventory bot (src/bot.js).            *)
(*                                                                         *)
(* The program is one Node.js event loop.  Code between two `await`s runs  *)
(* without interruption, so every action below is one such stretch: it     *)
(* starts where a promise settles (a response arrives, a timer elapses, a  *)
(* channel lookup settles) and runs to the next `await` or to the end of   *)
(* the handler.  The "ready" handler is process Ready; every firing of     *)
(* setInterval(checkChanges, ...) is an invocation of checkChanges held    *)
(* in one of the slots Sweeps.                                             *)
(*                                                                         *)
(* Time is not measured.  fetch(url) is called without a timeout, so a     *)
(* request may stay pending for any length of time, and the interval timer *)
(* may fire while an invocation is suspended anywhere.                     *)
(***************************************************************************)
EXTENDS Integers, Sequences, FiniteSets, TLC

\* ---------------------------------------------------------------- bounds
NumAccounts == 2      \* number of ids in STEAM_IDS
MaxSweeps == 2        \* invocations of checkChanges that may be live at once
MaxItems == 1         \* assets in one inventory response
MaxLen == 3           \* length of a list given to diffInventories
MaxLiteLen == 2       \* assets in one response to the lightweight variant

\* ------------------------------------------------------ program constants
maxRetries == 3
BackoffUnitMs == 60000
TransportDelayMs == 5000

\* --------------------------------------------------------------- values
Null == <<"null">>              \* the JS value null (fetchInventory's failure)
Undefined == <<"undefined">>    \* the JS value undefined (missing key)
Missing == <<"missing">>        \* a JSON field that is not in the body
NoMsg == [steamId |-> 0, added |-> <<>>, removed |-> <<>>]

ClassIds == {"c1", "c2"}        \* classid/instanceid pairs of assets
\* market_hash_name values.  They are names of market items, none of which
\* is a property every JS object inherits ("constructor", "toString", ...),
\* so `acc[name] || 0` is 0 for a name not counted yet.
Items == {"A", "B"}

STEAM_IDS == [i \in 1..NumAccounts |-> i]
Accounts == {STEAM_IDS[i] : i \in 1..NumAccounts}

Ready == 0
Sweeps == 1..MaxSweeps
Procs == {Ready} \cup Sweeps

RECURSIVE SeqsUpTo(_, _)
SeqsUpTo(S, n) ==
  IF n = 0 THEN {<<>>}
  ELSE LET shorter == SeqsUpTo(S, n - 1)
       IN  shorter \cup {Append(q, x) : q \in shorter, x \in S}

Range(q) == {q[i] : i \in 1..Len(q)}

\* ------------------------------------------------- the inventory source
\* What one `fetch(url)` can produce: it throws, or it answers with a status;
\* a 2xx answer carries a body that parses or not, with or without the lists.
AssetLists == SeqsUpTo(ClassIds, MaxItems) \cup {Missing}
DescriptionLists == {Missing, <<>>, <<"c1">>, <<"c1", "c2">>}

Responses ==
  {[threw |-> TRUE, status |-> 0, json |-> FALSE,
    assets |-> Missing, descriptions |-> Missing]}
  \cup {[threw |-> FALSE, status |-> s, json |-> FALSE,
         assets |-> Missing, descriptions |-> Missing] : s \in {429, 500, 200}}
  \cup {[threw |-> FALSE, status |-> 200, json |-> TRUE,
         assets |-> a, descriptions |-> d] :
          a \in AssetLists, d \in DescriptionLists}

\* The label under which a response is remembered in the call's history.
Outcome(r) ==
  IF r.threw THEN "throw"
  ELSE IF r.status = 429 THEN "429"
  ELSE IF ~(r.status \in 200..299) THEN "error"
  ELSE IF ~r.json THEN "badjson"
  ELSE "ok"

\* What `client.channels.fetch(CHANNEL_ID)` can settle to.
ChannelOutcomes == {"text", "nontext", "reject"}

\* ------------------------------------------------------- fetchInventory
RECURSIVE Pow2(_)
Pow2(n) == IF n = 0 THEN 1 ELSE 2 * Pow2(n - 1)

\* WaitTime with the exponent counted from 0: 1, 2, 4 minutes.
WaitTimeFromZero(attempt) == Pow2(attempt - 1) * BackoffUnitMs

WaitTime(attempt) == Pow2(attempt) * BackoffUnitMs

DelayFor(ms) == [next |-> "delay", ms |-> ms, value |-> Null]
ReturnOf(v) == [next |-> "return", ms |-> 0, value |-> v]

\* RateLimited with the retry test off by one: a wait follows the last 429 too.
RateLimitedOffByOne(attempt) ==
  IF attempt <= maxRetries THEN DelayFor(WaitTime(attempt)) ELSE ReturnOf(Null)

\* status === 429
RateLimited(attempt) ==
  IF attempt < maxRetries THEN DelayFor(WaitTime(attempt)) ELSE ReturnOf(Null)

\* Caught without its retry: the first exception ends the call.
CaughtGivesUp(attempt) == ReturnOf(Null)

\* catch (err)
Caught(attempt) ==
  IF attempt < maxRetries THEN DelayFor(TransportDelayMs) ELSE ReturnOf(Null)

\* NotOk retrying like a transport failure instead of failing at once.
NotOkRetries(attempt) == Caught(attempt)

\* !res.ok
NotOk(attempt) == ReturnOf(Null)

MarketHashName(c) == IF c = "c1" THEN "A" ELSE "B"

\* data.assets.map(asset => desc ? desc.market_hash_name : null).filter(Boolean)
RECURSIVE Normalize(_, _)
Normalize(assets, descriptions) ==
  IF assets = <<>> THEN <<>>
  ELSE LET rest == Normalize(Tail(assets), descriptions)
       IN  IF Head(assets) \in Range(descriptions)
           THEN <<MarketHashName(Head(assets))>> \o rest
           ELSE rest

ParseBody(r) ==
  IF r.assets = Missing \/ r.descriptions = Missing THEN <<>>
  ELSE Normalize(r.assets, r.descriptions)

\* One pass through the body of the retry loop, given what fetch(url) produced.
FetchAttempt(attempt, r) ==
  IF r.threw THEN Caught(attempt)
  ELSE IF r.status = 429 THEN RateLimited(attempt)
  ELSE IF ~(r.status \in 200..299) THEN NotOk(attempt)
  ELSE IF ~r.json THEN Caught(attempt)
  ELSE ReturnOf(ParseBody(r))

\* ------------------------------------------------------ diffInventories
RECURSIVE Keys(_)
\* Object.keys of the counts object: names in order of first occurrence.
Keys(items) ==
  IF items = <<>> THEN <<>>
  ELSE LET front == Keys(SubSeq(items, 1, Len(items) - 1))
           last == items[Len(items)]
       IN  IF last \in Range(front) THEN front ELSE Append(front, last)

Count(items, name) == Cardinality({i \in 1..Len(items) : items[i] = name})

Entry(name, delta) == name \o " x" \o ToString(delta)

RECURSIVE AddedNewCount(_, _, _)
\* Added reporting the new count instead of the difference of the counts.
AddedNewCount(names, oldItems, newItems) ==
  IF names = <<>> THEN <<>>
  ELSE LET n == Head(names)
           rest == AddedNewCount(Tail(names), oldItems, newItems)
       IN  IF Count(newItems, n) > Count(oldItems, n)
           THEN <<Entry(n, Count(newItems, n))>> \o rest
           ELSE rest

RECURSIVE Added(_, _, _)
Added(names, oldItems, newItems) ==
  IF names = <<>> THEN <<>>
  ELSE LET n == Head(names)
           rest == Added(Tail(names), oldItems, newItems)
       IN  IF Count(newItems, n) > Count(oldItems, n)
           THEN <<Entry(n, Count(newItems, n) - Count(oldItems, n))>> \o rest
           ELSE rest

RECURSIVE RemovedOnlyVanished(_, _, _)
\* Removed reporting a name only when no copy of it is left.
RemovedOnlyVanished(names, oldItems, newItems) ==
  IF names = <<>> THEN <<>>
  ELSE LET n == Head(names)
           rest == RemovedOnlyVanished(Tail(names), oldItems, newItems)
       IN  IF Count(oldItems, n) > 0 /\ Count(newItems, n) = 0
           THEN <<Entry(n, Count(oldItems, n))>> \o rest
           ELSE rest

RECURSIVE Removed(_, _, _)
Removed(names, oldItems, newItems) ==
  IF names = <<>> THEN <<>>
  ELSE LET n == Head(names)
           rest == Removed(Tail(names), oldItems, newItems)
       IN  IF Count(oldItems, n) > Count(newItems, n)
           THEN <<Entry(n, Count(oldItems, n) - Count(newItems, n))>> \o rest
           ELSE rest

\* diffInventories going through the names of oldItems only.
diffInventoriesOldNames(oldItems, newItems) ==
  LET allNames == Keys(oldItems)
  IN  [added |-> Added(allNames, oldItems, newItems),
       removed |-> Removed(allNames, oldItems, newItems)]

diffInventories(oldItems, newItems) ==
  LET allNames == Keys(Keys(oldItems) \o Keys(newItems))
  IN  [added |-> Added(allNames, oldItems, newItems),
       removed |-> Removed(allNames, oldItems, newItems)]


\* ----------------------------------------------------------- checkChanges
\* !newItems
Failed(items) == items = Null

\* HasPrior without its tests: every lookup of the store counts as a prior list.
HasPriorUnchecked(lastItems) == TRUE

\* lastItems && lastItems.length > 0
HasPrior(lastItems) == lastItems # Undefined /\ Len(lastItems) > 0

\* added.length || removed.length
Changed(d) == Len(d.added) > 0 \/ Len(d.removed) > 0

\* lastInventories[steamId] = newItems
Put(store, steamId, items) ==
  [k \in DOMAIN store \cup {steamId} |-> IF k = steamId THEN items ELSE store[k]]

\* lastInventories[steamId]
Get(store, steamId) ==
  IF steamId \in DOMAIN store THEN store[steamId] ELSE Undefined

\* ------------------------------------------------------------------ state
VARIABLES
  lastInventories,  \* let lastInventories = {}: steamId -> list of item names
  timerSet,         \* setInterval(checkChanges, 600 * 1000) has been called
  announced,        \* the "Bot is online" message was handed to the channel
  pc,               \* where each process is suspended
  idx,              \* position of each process in its loop over STEAM_IDS
  attempt,          \* the loop variable of the fetchInventory call in progress
  newItems,         \* what the last fetchInventory call returned
  step,             \* the loop iteration a process is in or has just ended:
                    \* its steamId, the store's entry it met (prior, which is
                    \* lastItems), its newItems, whether it called
                    \* diffInventories, the msg it sent, how the channel
                    \* lookup settled; forgotten at the process's next step
  fetched,          \* ids a process has called fetchInventory for in this pass
  sends,            \* channel.send calls of a sweep, per id
  log,              \* history of the startup pass's current fetchInventory call
  latest,           \* per id, what the last fetchInventory call that returned
                    \* a list returned (history)
  diffCall,         \* one call of diffInventories: its arguments and results
  liteLastItems,    \* lightweight variant: let lastItems = []
  liteTimer,        \* lightweight variant: setInterval has been called
  litePc,           \* lightweight variant: where each process is suspended
  liteLocals,       \* lightweight variant: items, added and removed of an
                    \* invocation suspended in the channel lookup
  liteStep          \* lightweight variant: the last invocation of
                    \* checkChanges that ended: the lastItems it met, its
                    \* items, the msg it sent (history)

botVars == <<lastInventories, timerSet, announced, pc, idx, attempt, newItems,
             step, fetched, sends>>
liteVars == <<liteLastItems, liteTimer, litePc, liteLocals, liteStep>>
others == <<diffCall, liteVars>>
vars == <<botVars, log, latest, others>>

NoStep == [steamId |-> 0, prior |-> Undefined, newItems |-> Undefined,
           diffed |-> FALSE, msg |-> NoMsg, chan |-> "none", status |-> "none"]
NoSends == [a \in Accounts |-> 0]
NoLog == [requests |-> 0, waits |-> <<>>, resps |-> <<>>]
NoDiff == [added |-> <<>>, removed |-> <<>>]
NoCall == [oldItems |-> <<>>, newItems |-> <<>>, called |-> "none",
           result |-> NoDiff, reverse |-> NoDiff]
NoLiteStep == [prior |-> <<>>, items |-> Undefined, sent |-> FALSE,
               added |-> <<>>, removed |-> <<>>]
NoLocals == [prior |-> <<>>, items |-> Undefined,
             added |-> <<>>, removed |-> <<>>]

\* The lightweight variant before its "ready" event.
InitLite ==
  /\ liteLastItems = <<>>
  /\ liteTimer = FALSE
  /\ litePc = [p \in Procs |-> IF p = Ready THEN "init" ELSE "idle"]
  /\ liteLocals = [p \in Procs |-> NoLocals]
  /\ liteStep = NoLiteStep

InitBot ==
  /\ lastInventories = <<>>
  /\ timerSet = FALSE
  /\ announced = FALSE
  /\ pc = [p \in Procs |-> IF p = Ready THEN "init" ELSE "idle"]
  /\ idx = [p \in Procs |-> 0]
  /\ attempt = [p \in Procs |-> 0]
  /\ newItems = [p \in Procs |-> Undefined]
  /\ step = [p \in Procs |-> NoStep]
  /\ fetched = [p \in Procs |-> {}]
  /\ sends = [p \in Procs |-> NoSends]
  /\ log = NoLog
  /\ latest = [a \in Accounts |-> Undefined]

Init == InitBot /\ diffCall = NoCall /\ InitLite

\* fetchInventory(STEAM_IDS[i]) is called and runs to its first fetch(url).
CallFetch(p, i, seen) ==
  /\ idx' = [idx EXCEPT ![p] = i]
  /\ pc' = [pc EXCEPT ![p] = "request"]
  /\ attempt' = [attempt EXCEPT ![p] = 1]
  /\ newItems' = [newItems EXCEPT ![p] = Undefined]
  /\ fetched' = [fetched EXCEPT ![p] = seen \cup {STEAM_IDS[i]}]

\* The process leaves its loop or stops: no call, no position.
Leave(p, where) ==
  /\ idx' = [idx EXCEPT ![p] = 0]
  /\ pc' = [pc EXCEPT ![p] = where]
  /\ newItems' = [newItems EXCEPT ![p] = Undefined]
  /\ UNCHANGED <<attempt, fetched>>

\* ------------------------------------------- fetchInventory, for any caller
\* await fetch(url) settles with r; the loop body runs to a delay or a return.
Respond(p, r) ==
  /\ pc[p] = "request"
  /\ LET o == FetchAttempt(attempt[p], r)
     IN  /\ pc' = [pc EXCEPT ![p] = IF o.next = "delay" THEN "delay" ELSE "returned"]
         /\ attempt' = [attempt EXCEPT ![p] = IF o.next = "delay" THEN @ ELSE 0]
         /\ newItems' = [newItems EXCEPT ![p] =
                           IF o.next = "delay" THEN Undefined ELSE o.value]
  /\ step' = [step EXCEPT ![p] = NoStep]
  /\ UNCHANGED <<lastInventories, timerSet, announced, idx, fetched, sends>>

\* DelayElapsed without attempt++: the retry does not count.
DelayElapsedSameAttempt(p) ==
  /\ pc[p] = "delay"
  /\ pc' = [pc EXCEPT ![p] = "request"]
  /\ UNCHANGED <<lastInventories, timerSet, announced, idx, attempt, newItems,
                 step, fetched, sends>>

\* await delay(ms) elapses; `continue` runs attempt++ and the loop test, and
\* the next fetch(url) is issued, or the loop is left and null returned.
DelayElapsed(p) ==
  /\ pc[p] = "delay"
  /\ IF attempt[p] + 1 <= maxRetries
     THEN /\ attempt' = [attempt EXCEPT ![p] = @ + 1]
          /\ pc' = [pc EXCEPT ![p] = "request"]
          /\ UNCHANGED newItems
     ELSE /\ attempt' = [attempt EXCEPT ![p] = 0]
          /\ pc' = [pc EXCEPT ![p] = "returned"]
          /\ newItems' = [newItems EXCEPT ![p] = Null]
  /\ UNCHANGED <<lastInventories, timerSet, announced, idx, step, fetched, sends>>

\* -------------------------------------------------- client.once("ready")
\* ReadyFires with setInterval moved in front of the initial fetch loop.
ReadyFiresTimerFirst ==
  /\ pc[Ready] = "init"
  /\ CallFetch(Ready, 1, {})
  /\ timerSet' = TRUE
  /\ UNCHANGED <<lastInventories, announced, step, sends>>

ReadyFires ==
  /\ pc[Ready] = "init"
  /\ CallFetch(Ready, 1, {})
  /\ UNCHANGED <<lastInventories, timerSet, announced, step, sends>>

\* testItems is back: seed the store or log, then the next id, or the test
\* channel lookup after the last id.
ReadyResume ==
  /\ pc[Ready] = "returned"
  /\ LET id == STEAM_IDS[idx[Ready]]
         testItems == newItems[Ready]
     IN  /\ lastInventories' =
              IF ~Failed(testItems) THEN Put(lastInventories, id, testItems)
              ELSE lastInventories
         /\ step' = [step EXCEPT ![Ready] =
                       [steamId |-> id, prior |-> Get(lastInventories, id),
                        newItems |-> testItems, diffed |-> FALSE, msg |-> NoMsg,
                        chan |-> "none", status |-> "closed"]]
  /\ IF idx[Ready] < NumAccounts
     THEN CallFetch(Ready, idx[Ready] + 1, fetched[Ready])
     ELSE Leave(Ready, "testChannel")
  /\ UNCHANGED <<timerSet, announced, sends>>

\* await client.channels.fetch(CHANNEL_ID) settles; the timer is set unless
\* the lookup rejected, which ends the handler.
ReadyChannel(c) ==
  /\ pc[Ready] = "testChannel"
  /\ announced' = (c = "text")
  /\ timerSet' = (c # "reject")
  /\ pc' = [pc EXCEPT ![Ready] = IF c = "reject" THEN "aborted" ELSE "done"]
  /\ step' = [step EXCEPT ![Ready] = NoStep]
  /\ UNCHANGED <<lastInventories, idx, attempt, newItems, fetched, sends>>

\* ----------------------------------------- setInterval(checkChanges, ...)
Free(s) == pc[s] \in {"idle", "done", "aborted"}
InProgress(s) == ~Free(s)

\* The timer fires: a new invocation of checkChanges starts, whatever the
\* earlier ones are doing, and runs to its first fetch(url).  It takes the
\* lowest free slot; with MaxSweeps invocations live the model starts no more.
Tick(s) ==
  /\ timerSet
  /\ Free(s)
  /\ \A t \in Sweeps : Free(t) => s <= t
  /\ CallFetch(s, 1, {})
  /\ step' = [step EXCEPT ![s] = NoStep]
  /\ sends' = [sends EXCEPT ![s] = NoSends]
  /\ UNCHANGED <<lastInventories, timerSet, announced>>

\* The for...of header: the next id's fetchInventory, or "All inventory
\* checks complete."
NextAccount(s) ==
  IF idx[s] < NumAccounts
  THEN CallFetch(s, idx[s] + 1, fetched[s])
  ELSE Leave(s, "done")

\* SkipFailed taking the failure for an empty inventory: [] is stored.
SkipFailedAsEmpty(s) ==
  /\ pc[s] = "returned"
  /\ Failed(newItems[s])
  /\ lastInventories' = Put(lastInventories, STEAM_IDS[idx[s]], <<>>)
  /\ step' = [step EXCEPT ![s] =
                [steamId |-> STEAM_IDS[idx[s]],
                 prior |-> Get(lastInventories, STEAM_IDS[idx[s]]),
                 newItems |-> Null, diffed |-> FALSE, msg |-> NoMsg,
                 chan |-> "none", status |-> "closed"]]
  /\ NextAccount(s)
  /\ UNCHANGED <<timerSet, announced, sends>>

\* if (!newItems) { ...; continue; }
SkipFailed(s) ==
  /\ pc[s] = "returned"
  /\ Failed(newItems[s])
  /\ step' = [step EXCEPT ![s] =
                [steamId |-> STEAM_IDS[idx[s]],
                 prior |-> Get(lastInventories, STEAM_IDS[idx[s]]),
                 newItems |-> Null, diffed |-> FALSE, msg |-> NoMsg,
                 chan |-> "none", status |-> "closed"]]
  /\ NextAccount(s)
  /\ UNCHANGED <<lastInventories, timerSet, announced, sends>>

\* A snapshot came back and nothing is to be sent: no usable prior list, or
\* an empty diff.  The snapshot is stored.
StoreSnapshot(s) ==
  /\ pc[s] = "returned"
  /\ ~Failed(newItems[s])
  /\ LET id == STEAM_IDS[idx[s]]
         lastItems == Get(lastInventories, id)
     IN  /\ HasPrior(lastItems) =>
               ~Changed(diffInventories(lastItems, newItems[s]))
         /\ lastInventories' = Put(lastInventories, id, newItems[s])
         /\ step' = [step EXCEPT ![s] =
                       [steamId |-> id, prior |-> lastItems,
                        newItems |-> newItems[s], diffed |-> HasPrior(lastItems),
                        msg |-> NoMsg, chan |-> "none", status |-> "closed"]]
  /\ NextAccount(s)
  /\ UNCHANGED <<timerSet, announced, sends>>

\* A snapshot came back and the diff is not empty: the invocation suspends
\* in await client.channels.fetch(CHANNEL_ID), holding lastItems, newItems,
\* added and removed.
AwaitChannel(s) ==
  /\ pc[s] = "returned"
  /\ ~Failed(newItems[s])
  /\ LET id == STEAM_IDS[idx[s]]
         lastItems == Get(lastInventories, id)
     IN  /\ HasPrior(lastItems)
         /\ Changed(diffInventories(lastItems, newItems[s]))
         /\ step' = [step EXCEPT ![s] =
                       [steamId |-> id, prior |-> lastItems,
                        newItems |-> newItems[s], diffed |-> TRUE,
                        msg |-> NoMsg, chan |-> "none", status |-> "open"]]
  /\ pc' = [pc EXCEPT ![s] = "lookup"]
  /\ newItems' = [newItems EXCEPT ![s] = Undefined]
  /\ UNCHANGED <<lastInventories, timerSet, announced, idx, attempt, fetched,
                 sends>>

\* The lookup resolved to a text-based channel: channel.send(msg), then the
\* snapshot is stored.
SendAndStore(s) ==
  /\ pc[s] = "lookup"
  /\ LET id == step[s].steamId
         d == diffInventories(step[s].prior, step[s].newItems)
     IN  /\ sends' = [sends EXCEPT ![s][id] = @ + 1]
         /\ step' = [step EXCEPT
                       ![s].msg = [steamId |-> id, added |-> d.added,
                                   removed |-> d.removed],
                       ![s].chan = "text", ![s].status = "closed"]
         /\ lastInventories' = Put(lastInventories, id, step[s].newItems)
  /\ NextAccount(s)
  /\ UNCHANGED <<timerSet, announced>>

\* The lookup resolved to nothing postable: logged, then the snapshot is
\* stored.
LogAndStore(s) ==
  /\ pc[s] = "lookup"
  /\ step' = [step EXCEPT ![s].chan = "nontext", ![s].status = "closed"]
  /\ lastInventories' = Put(lastInventories, step[s].steamId, step[s].newItems)
  /\ NextAccount(s)
  /\ UNCHANGED <<timerSet, announced, sends>>

\* The lookup rejected: the await throws out of checkChanges, which has no
\* try/catch; the invocation ends there, before the store is written.
LookupRejects(s) ==
  /\ pc[s] = "lookup"
  /\ step' = [step EXCEPT ![s].chan = "reject", ![s].status = "aborted"]
  /\ Leave(s, "aborted")
  /\ UNCHANGED <<lastInventories, timerSet, announced, sends>>

\* ------------------------------------------------------- the whole program
Next ==
  \/ ReadyFires /\ UNCHANGED <<log, latest, others>>
  \/ ReadyResume /\ UNCHANGED <<log, latest, others>>
  \/ \E c \in ChannelOutcomes : ReadyChannel(c) /\ UNCHANGED <<log, latest, others>>
  \/ \E p \in Procs, r \in Responses : Respond(p, r) /\ UNCHANGED <<log, latest, others>>
  \/ \E p \in Procs : DelayElapsed(p) /\ UNCHANGED <<log, latest, others>>
  \/ \E s \in Sweeps : Tick(s) /\ UNCHANGED <<log, latest, others>>
  \/ \E s \in Sweeps : SkipFailed(s) /\ UNCHANGED <<log, latest, others>>
  \/ \E s \in Sweeps : StoreSnapshot(s) /\ UNCHANGED <<log, latest, others>>
  \/ \E s \in Sweeps : AwaitChannel(s) /\ UNCHANGED <<log, latest, others>>
  \/ \E s \in Sweeps : SendAndStore(s) /\ UNCHANGED <<log, latest, others>>
  \/ \E s \in Sweeps : LogAndStore(s) /\ UNCHANGED <<log, latest, others>>
  \/ \E s \in Sweeps : LookupRejects(s) /\ UNCHANGED <<log, latest, others>>

Spec == Init /\ [][Next]_vars

\* --------------------------------------- the startup pass, with its history
\* The same handler with a history variable: log records, for the
\* fetchInventory call the ready handler is in (or has just got back), the
\* fetch(url) calls issued, the delays started and the responses received.
NewLog == [requests |-> 1, waits |-> <<>>, resps |-> <<>>]

LoggedReadyFires == ReadyFires /\ log' = NewLog

LoggedReadyResume ==
  ReadyResume /\ log' = IF pc'[Ready] = "request" THEN NewLog ELSE NoLog

LoggedRespond(r) ==
  /\ Respond(Ready, r)
  /\ LET o == FetchAttempt(attempt[Ready], r)
     IN  log' = [log EXCEPT
                   !.resps = Append(@, Outcome(r)),
                   !.waits = IF o.next = "delay" THEN Append(@, o.ms) ELSE @]

LoggedDelayElapsed ==
  /\ DelayElapsed(Ready)
  /\ log' = [log EXCEPT
               !.requests = IF pc'[Ready] = "request" THEN @ + 1 ELSE @]

NextFetch ==
  \/ LoggedReadyFires /\ UNCHANGED <<latest, others>>
  \/ LoggedReadyResume /\ UNCHANGED <<latest, others>>
  \/ \E r \in Responses : LoggedRespond(r) /\ UNCHANGED <<latest, others>>
  \/ LoggedDelayElapsed /\ UNCHANGED <<latest, others>>
  \/ \E c \in ChannelOutcomes : ReadyChannel(c) /\ UNCHANGED <<log, latest, others>>

SpecFetch == Init /\ [][NextFetch]_vars

\* --------------------------------- the whole program, with a fetch history
\* The program with a history variable: latest[a] is the list returned by
\* the fetchInventory call for id a that returned a list last, whoever made
\* the call.
RecordedRespond(p, r) ==
  /\ Respond(p, r)
  /\ latest' = IF pc'[p] = "returned" /\ ~Failed(newItems'[p])
                THEN [latest EXCEPT ![STEAM_IDS[idx[p]]] = newItems'[p]]
                ELSE latest

NextStore ==
  \/ ReadyFires /\ UNCHANGED <<log, latest, others>>
  \/ ReadyResume /\ UNCHANGED <<log, latest, others>>
  \/ \E c \in ChannelOutcomes : ReadyChannel(c) /\ UNCHANGED <<log, latest, others>>
  \/ \E p \in Procs, r \in Responses : RecordedRespond(p, r) /\ UNCHANGED <<log, others>>
  \/ \E p \in Procs : DelayElapsed(p) /\ UNCHANGED <<log, latest, others>>
  \/ \E s \in Sweeps : Tick(s) /\ UNCHANGED <<log, latest, others>>
  \/ \E s \in Sweeps : SkipFailed(s) /\ UNCHANGED <<log, latest, others>>
  \/ \E s \in Sweeps : StoreSnapshot(s) /\ UNCHANGED <<log, latest, others>>
  \/ \E s \in Sweeps : AwaitChannel(s) /\ UNCHANGED <<log, latest, others>>
  \/ \E s \in Sweeps : SendAndStore(s) /\ UNCHANGED <<log, latest, others>>
  \/ \E s \in Sweeps : LogAndStore(s) /\ UNCHANGED <<log, latest, others>>
  \/ \E s \in Sweeps : LookupRejects(s) /\ UNCHANGED <<log, latest, others>>

SpecStore == Init /\ [][NextStore]_vars

\* ------------------------------------ the lightweight single-account bot
\* src/unnamed/part_000: one id, fetchInventory without retries, the lists
\* compared by membership.  Its "ready" handler is process Ready, its
\* invocations of checkChanges are held in the slots Sweeps.
LiteResponses ==
  {[threw |-> TRUE, status |-> 0, json |-> FALSE,
    assets |-> Missing, descriptions |-> Missing]}
  \cup {[threw |-> FALSE, status |-> st, json |-> FALSE,
         assets |-> Missing, descriptions |-> Missing] : st \in {429, 500, 200}}
  \cup {[threw |-> FALSE, status |-> 200, json |-> TRUE,
         assets |-> a, descriptions |-> d] :
          a \in SeqsUpTo(ClassIds, MaxLiteLen) \cup {Missing},
          d \in DescriptionLists}

\* fetchInventory(): null when the request throws, the status is not ok or
\* the body does not parse; [] without the lists; else one name per asset.
LiteFetchInventory(r) ==
  IF r.threw \/ ~(r.status \in 200..299) \/ ~r.json THEN Null
  ELSE IF r.assets = Missing \/ r.descriptions = Missing THEN <<>>
  ELSE Normalize(r.assets, r.descriptions)

\* xs.filter(x => !ys.includes(x))
NotIncluded(xs, ys) == SelectSeq(xs, LAMBDA x : x \notin Range(ys))

\* client.once("ready"): await fetchInventory() for the test fetch.
LiteReadyFires ==
  /\ litePc[Ready] = "init"
  /\ litePc' = [litePc EXCEPT ![Ready] = "request"]
  /\ UNCHANGED <<liteLastItems, liteTimer, liteLocals, liteStep>>

\* The test fetch settles; testItems is logged, lastItems is not written;
\* setInterval(checkChanges, 60 * 1000).
LiteReadyResume(r) ==
  /\ litePc[Ready] = "request"
  /\ litePc' = [litePc EXCEPT ![Ready] = "done"]
  /\ liteTimer' = TRUE
  /\ UNCHANGED <<liteLastItems, liteLocals, liteStep>>

\* The interval fires: checkChanges() runs to await fetchInventory().
LiteTick(s) ==
  /\ liteTimer
  /\ litePc[s] = "idle"
  /\ \A t \in Sweeps : litePc[t] = "idle" => s <= t
  /\ litePc' = [litePc EXCEPT ![s] = "request"]
  /\ UNCHANGED <<liteLastItems, liteTimer, liteLocals, liteStep>>

\* if (!items) return;
LiteSkipFailed(s, r) ==
  /\ litePc[s] = "request"
  /\ Failed(LiteFetchInventory(r))
  /\ litePc' = [litePc EXCEPT ![s] = "idle"]
  /\ liteStep' = [prior |-> liteLastItems, items |-> Null, sent |-> FALSE,
                  added |-> <<>>, removed |-> <<>>]
  /\ UNCHANGED <<liteLastItems, liteTimer, liteLocals>>

\* lastItems is empty, or added and removed are both empty:
\* lastItems = items.
LiteStore(s, r) ==
  /\ litePc[s] = "request"
  /\ LET items == LiteFetchInventory(r)
     IN  /\ ~Failed(items)
         /\ Len(liteLastItems) > 0 =>
               /\ NotIncluded(items, liteLastItems) = <<>>
               /\ NotIncluded(liteLastItems, items) = <<>>
         /\ liteLastItems' = items
         /\ liteStep' = [prior |-> liteLastItems, items |-> items,
                         sent |-> FALSE, added |-> <<>>, removed |-> <<>>]
  /\ litePc' = [litePc EXCEPT ![s] = "idle"]
  /\ UNCHANGED <<liteTimer, liteLocals>>

\* added.length || removed.length: await client.channels.fetch(CHANNEL_ID).
LiteAwaitChannel(s, r) ==
  /\ litePc[s] = "request"
  /\ LET items == LiteFetchInventory(r)
     IN  /\ ~Failed(items)
         /\ Len(liteLastItems) > 0
         /\ LET added == NotIncluded(items, liteLastItems)
                removed == NotIncluded(liteLastItems, items)
            IN  /\ Len(added) > 0 \/ Len(removed) > 0
                /\ liteLocals' = [liteLocals EXCEPT ![s] =
                                    [prior |-> liteLastItems, items |-> items,
                                     added |-> added, removed |-> removed]]
  /\ litePc' = [litePc EXCEPT ![s] = "lookup"]
  /\ UNCHANGED <<liteLastItems, liteTimer, liteStep>>

\* The lookup resolved to a channel with send: channel.send(msg);
\* lastItems = items.
LiteSendAndStore(s) ==
  /\ litePc[s] = "lookup"
  /\ liteLastItems' = liteLocals[s].items
  /\ liteStep' = [prior |-> liteLocals[s].prior, items |-> liteLocals[s].items,
                  sent |-> TRUE, added |-> liteLocals[s].added,
                  removed |-> liteLocals[s].removed]
  /\ litePc' = [litePc EXCEPT ![s] = "idle"]
  /\ liteLocals' = [liteLocals EXCEPT ![s] = NoLocals]
  /\ UNCHANGED liteTimer

\* The lookup rejected, or resolved to something without send: the
\* exception leaves checkChanges before lastItems is written.
LiteThrows(s) ==
  /\ litePc[s] = "lookup"
  /\ liteStep' = [prior |-> liteLocals[s].prior, items |-> liteLocals[s].items,
                  sent |-> FALSE, added |-> <<>>, removed |-> <<>>]
  /\ litePc' = [litePc EXCEPT ![s] = "idle"]
  /\ liteLocals' = [liteLocals EXCEPT ![s] = NoLocals]
  /\ UNCHANGED <<liteLastItems, liteTimer>>

NextLite ==
  \/ LiteReadyFires /\ UNCHANGED <<botVars, log, latest, diffCall>>
  \/ \E r \in LiteResponses : LiteReadyResume(r) /\ UNCHANGED <<botVars, log, latest, diffCall>>
  \/ \E s \in Sweeps : LiteTick(s) /\ UNCHANGED <<botVars, log, latest, diffCall>>
  \/ \E s \in Sweeps, r \in LiteResponses : LiteSkipFailed(s, r) /\ UNCHANGED <<botVars, log, latest, diffCall>>
  \/ \E s \in Sweeps, r \in LiteResponses : LiteStore(s, r) /\ UNCHANGED <<botVars, log, latest, diffCall>>
  \/ \E s \in Sweeps, r \in LiteResponses : LiteAwaitChannel(s, r) /\ UNCHANGED <<botVars, log, latest, diffCall>>
  \/ \E s \in Sweeps : LiteSendAndStore(s) /\ UNCHANGED <<botVars, log, latest, diffCall>>
  \/ \E s \in Sweeps : LiteThrows(s) /\ UNCHANGED <<botVars, log, latest, diffCall>>

SpecLite == Init /\ [][NextLite]_vars

\* ------------------------------------------- diffInventories on its own
\* diffInventories is a function of its two arguments alone: it is called
\* here on every pair of lists of at most MaxLen names, in both orders.
Snapshots == SeqsUpTo(Items, MaxLen)

InitDiff ==
  /\ InitBot
  /\ InitLite
  /\ diffCall \in {[NoCall EXCEPT !.oldItems = a, !.newItems = b] :
                      a \in Snapshots, b \in Snapshots}

\* diffInventories(oldItems, newItems)
CallDiff ==
  /\ diffCall.called = "none"
  /\ diffCall' = [diffCall EXCEPT
                    !.called = "forward",
                    !.result = diffInventories(diffCall.oldItems,
                                               diffCall.newItems)]
  /\ UNCHANGED <<botVars, log, latest, liteVars>>

\* diffInventories(newItems, oldItems)
CallDiffReversed ==
  /\ diffCall.called = "forward"
  /\ diffCall' = [diffCall EXCEPT
                    !.called = "both",
                    !.reverse = diffInventories(diffCall.newItems,
                                                diffCall.oldItems)]
  /\ UNCHANGED <<botVars, log, latest, liteVars>>

NextDiff ==
  \/ CallDiff
  \/ CallDiffReversed

SpecDiff == InitDiff /\ [][NextDiff]_vars

\* Every pending promise of the handler settles: the source answers or the
\* request fails, a delay elapses, the channel lookup settles.
FairFetch == SpecFetch /\ WF_vars(NextFetch)

\* ========================================================= checkChanges
Differ(a, b) == \E n \in Items : Count(a, n) # Count(b, n)

\* Process p, suspended where fetchInventory has returned, resumes in this step.
Resumes(p) == pc[p] = "returned" /\ pc'[p] # "returned"

\* Sweep s finishes, or is thrown out of, a loop iteration in this step.
Completes(s) == step'[s] # step[s] /\ step'[s].status \in {"closed", "aborted"}

\* C1: at any moment at most one invocation of checkChanges is in progress.
C1_SweepsNeverOverlap == Cardinality({s \in Sweeps : InProgress(s)}) <= 1

\* C2: when a sweep resumes with a failed fetch (null) for an id, that step
\* leaves the whole store as it was, sends nothing and starts no channel
\* lookup: the failure is not taken for an empty inventory.
C2_FailedFetchKeepsState ==
  [][\A s \in Sweeps :
       (Resumes(s) /\ Failed(newItems[s]))
       => /\ lastInventories' = lastInventories
          /\ sends' = sends
          /\ step'[s].msg = NoMsg
          /\ ~step'[s].diffed
          /\ pc'[s] # "lookup"]_vars

C2_Witness ==
  \E s \in Sweeps :
    /\ step[s].status = "closed"
    /\ Failed(step[s].newItems)
    /\ step[s].prior = <<"A">>
    /\ Get(lastInventories, step[s].steamId) = <<"A">>
    /\ sends[s][step[s].steamId] = 0

\* C3: a sweep that has ended, by returning or by an exception, has called
\* fetchInventory for every configured id.
C3_EveryAccountFetched ==
  \A s \in Sweeps : pc[s] \in {"done", "aborted"} => fetched[s] = Accounts

\* C4: a loop iteration of a sweep whose id has a stored list and whose fetch
\* returned a list that differs from it sends exactly one message, carrying
\* the additions and the removals, and leaves the fetched list stored; one
\* whose fetch failed or returned an equal list sends none; no sweep sends two
\* messages for one id.
C4_ChangeNotifiedOnce ==
  [][\A s \in Sweeps :
       Completes(s) =>
         LET id == step'[s].steamId
             old == step'[s].prior
             new == step'[s].newItems
         IN  /\ (old # Undefined /\ ~Failed(new) /\ Differ(old, new))
                => /\ sends'[s][id] = 1
                   /\ step'[s].msg =
                        [steamId |-> id,
                         added |-> diffInventories(old, new).added,
                         removed |-> diffInventories(old, new).removed]
                   /\ Get(lastInventories', id) = new
             /\ (Failed(new) \/ (old # Undefined /\ ~Differ(old, new)))
                => /\ sends'[s][id] = 0
                   /\ step'[s].msg = NoMsg
             /\ \A a \in Accounts : sends'[s][a] <= 1]_vars

\* C5: when the startup pass or a sweep resumes with a fetched list for an id
\* that has no entry in the store, that step stores the list, sends nothing,
\* starts no channel lookup and does not call diffInventories.
C5_FirstFetchIsBaseline ==
  [][\A p \in Procs :
       (/\ Resumes(p)
        /\ ~Failed(newItems[p])
        /\ STEAM_IDS[idx[p]] \notin DOMAIN lastInventories)
       => /\ Get(lastInventories', STEAM_IDS[idx[p]]) = newItems[p]
          /\ sends' = sends
          /\ step'[p].msg = NoMsg
          /\ ~step'[p].diffed
          /\ pc'[p] # "lookup"]_vars

C5_Witness ==
  \E s \in Sweeps :
    /\ step[s].status = "closed"
    /\ step[s].prior = Undefined
    /\ step[s].newItems = <<"A">>
    /\ Get(lastInventories, step[s].steamId) = <<"A">>
    /\ ~step[s].diffed
    /\ sends[s][step[s].steamId] = 0

\* C6: when a sweep resumes with a fetched list for an id that has an entry
\* in the store, the empty list included, and the diff of the two is not
\* empty, the step calls diffInventories and goes on to notify (it looks the
\* channel up).
C6_StoredSnapshotIsDiffed ==
  [][\A s \in Sweeps :
       (/\ Resumes(s)
        /\ ~Failed(newItems[s])
        /\ STEAM_IDS[idx[s]] \in DOMAIN lastInventories
        /\ Changed(diffInventories(lastInventories[STEAM_IDS[idx[s]]],
                                   newItems[s])))
       => /\ step'[s].diffed
          /\ pc'[s] = "lookup"]_vars

\* C10: when the channel lookup made for a non-empty diff does not yield a
\* postable channel, the fetched list is stored all the same and the sweep
\* goes on to the ids that remain.
C10_DeliveryErrorNonBlocking ==
  [][\A s \in Sweeps :
       (/\ pc[s] = "lookup"
        /\ pc'[s] # "lookup"
        /\ step'[s].chan \in {"nontext", "reject"})
       => /\ Get(lastInventories', step[s].steamId) = step[s].newItems
          /\ pc'[s] # "aborted"
          /\ idx[s] < NumAccounts => STEAM_IDS[idx[s] + 1] \in fetched'[s]]_vars

\* ======================================================= fetchInventory
ReadyReturned == pc[Ready] = "returned"

\* C7: a fetchInventory call that gets a 429 on every attempt has, when it
\* returns, issued exactly 3 requests, started a backoff wait after the first
\* and the second only (none after the third), and returns null.
C7_RateLimitExhausted ==
  (/\ ReadyReturned
   /\ log.resps # <<>>
   /\ \A k \in 1..Len(log.resps) : log.resps[k] = "429")
  => /\ log.requests = 3
     /\ Len(log.resps) = 3
     /\ Len(log.waits) = 2
     /\ newItems[Ready] = Null

C7_Witness ==
  /\ ReadyReturned
  /\ log.resps = <<"429", "429", "429">>
  /\ log.requests = 3

\* C8: a non-success status other than 429, on whichever attempt it comes,
\* is the call's last response: the call has returned null, and no request
\* and no delay was started after it.
C8_ErrorStatusFailsAtOnce ==
  \A k \in 1..Len(log.resps) :
    log.resps[k] = "error"
    => /\ k = Len(log.resps)
       /\ ReadyReturned
       /\ newItems[Ready] = Null
       /\ log.requests = k
       /\ Len(log.waits) = k - 1

C8_Witness ==
  /\ ReadyReturned
  /\ log.resps = <<"429", "error">>

\* C9: a request that throws on attempt k < maxRetries is followed by a delay
\* of 5000 ms, during which no request is issued and after which request k+1
\* is; one that throws on attempt k = maxRetries ends the call with null and
\* no delay.
C9_TransportFailureRetried ==
  \A k \in 1..Len(log.resps) :
    log.resps[k] = "throw"
    => IF k < maxRetries
       THEN /\ Len(log.waits) >= k
            /\ log.waits[k] = 5000
            /\ \/ pc[Ready] = "delay" /\ Len(log.resps) = k /\ log.requests = k
               \/ log.requests >= k + 1
       ELSE /\ ReadyReturned
            /\ newItems[Ready] = Null
            /\ Len(log.waits) = k - 1
            /\ log.requests = k

C9_Witness ==
  /\ ReadyReturned
  /\ log.resps = <<"throw", "throw", "throw">>
  /\ log.waits = <<5000, 5000>>

\* C17: a 429 on attempt k < maxRetries starts a wait of 2^k * 60000 ms
\* (120000 after attempt 1, 240000 after attempt 2); while the wait is pending
\* no request is issued, and request k+1 is issued when it has elapsed.
C17_BackoffSchedule ==
  /\ \A k \in 1..Len(log.resps) :
       (log.resps[k] = "429" /\ k < maxRetries)
       => /\ Len(log.waits) >= k
          /\ log.waits[k] = (2 ^ k) * 60000
          /\ k = 1 => log.waits[k] = 120000
          /\ k = 2 => log.waits[k] = 240000
          /\ \/ pc[Ready] = "delay" /\ Len(log.resps) = k /\ log.requests = k
             \/ log.requests >= k + 1
  /\ pc[Ready] = "delay" => log.requests = Len(log.waits)
  /\ pc[Ready] = "request" => log.requests = Len(log.waits) + 1

C17_Witness ==
  /\ pc[Ready] = "request"
  /\ log.resps = <<"429", "429">>
  /\ log.waits = <<120000, 240000>>
  /\ log.requests = 3

\* C18: whatever the responses, a fetchInventory call issues at most
\* maxRetries requests, every response or exception uses up one attempt of
\* the one counter, the response to request number maxRetries ends the call
\* with a list or null, every call returns, and the pass over the ids ends.
C18_FetchTerminates ==
  /\ [](/\ log.requests <= maxRetries
        /\ Len(log.resps) <= log.requests
        /\ pc[Ready] \in {"request", "delay"} => attempt[Ready] = log.requests
        /\ Len(log.resps) = maxRetries => ReadyReturned
        /\ ReadyReturned => Len(log.resps) = log.requests)
  /\ (pc[Ready] = "request" ~> ReadyReturned)
  /\ <>(pc[Ready] \in {"done", "aborted"})

C18_Witness ==
  /\ ReadyReturned
  /\ log.resps = <<"429", "throw", "badjson">>
  /\ log.requests = 3
  /\ newItems[Ready] = Null

\* ====================================================== diffInventories
\* The reference: occurrences counted by recursion over the list, and the
\* additions and removals as sets of entries over all names.
RECURSIVE Occurrences(_, _)
Occurrences(q, x) ==
  IF q = <<>> THEN 0
  ELSE (IF Head(q) = x THEN 1 ELSE 0) + Occurrences(Tail(q), x)

SameMultiset(a, b) == \A x \in Items : Occurrences(a, x) = Occurrences(b, x)

ExpectedAdded(a, b) ==
  {Entry(x, Occurrences(b, x) - Occurrences(a, x)) :
     x \in {y \in Items : Occurrences(b, y) > Occurrences(a, y)}}

ExpectedRemoved(a, b) ==
  {Entry(x, Occurrences(a, x) - Occurrences(b, x)) :
     x \in {y \in Items : Occurrences(a, y) > Occurrences(b, y)}}

\* The entries of d, additions and removals together, that name x.
EntriesOf(d, x) ==
  LET all == d.added \o d.removed
  IN  {i \in 1..Len(all) : \E k \in 1..MaxLen : all[i] = Entry(x, k)}

\* b is a with one more occurrence of x.
OneMore(a, b, x) ==
  \A y \in Items :
    Occurrences(b, y) = Occurrences(a, y) + (IF y = x THEN 1 ELSE 0)

\* C12: diffInventories(previous, current) is the reference multiset diff:
\* a name is among the additions exactly when its count grew, with the
\* growth as delta, among the removals exactly when its count shrank, with
\* the loss as delta, in neither when the counts are equal, and at most once
\* overall; one more occurrence of X gives the single addition "X x1" and no
\* removal.
C12_DiffIsMultisetDiff ==
  diffCall.called # "none" =>
    LET a == diffCall.oldItems
        b == diffCall.newItems
        d == diffCall.result
    IN  /\ Range(d.added) = ExpectedAdded(a, b)
        /\ Range(d.removed) = ExpectedRemoved(a, b)
        /\ Len(d.added) = Cardinality(ExpectedAdded(a, b))
        /\ Len(d.removed) = Cardinality(ExpectedRemoved(a, b))
        /\ \A x \in Items :
             /\ Cardinality(EntriesOf(d, x)) <= 1
             /\ Occurrences(a, x) = Occurrences(b, x) => EntriesOf(d, x) = {}
             /\ OneMore(a, b, x) => d = [added |-> <<Entry(x, 1)>>,
                                         removed |-> <<>>]

C12_Witness ==
  /\ diffCall.called = "forward"
  /\ diffCall.oldItems = <<"B", "A">>
  /\ diffCall.newItems = <<"A", "A", "B">>
  /\ diffCall.result = [added |-> <<"A x1">>, removed |-> <<>>]

\* C13: the diff has no additions and no removals if and only if the two
\* lists are equal as multisets; so the diff of a list with itself, or with
\* a reordering of itself, is empty.
C13_EmptyIffSameMultiset ==
  diffCall.called # "none" =>
    /\ ~Changed(diffCall.result)
         <=> SameMultiset(diffCall.oldItems, diffCall.newItems)
    /\ diffCall.oldItems = diffCall.newItems => diffCall.result = NoDiff

C13_Witness ==
  /\ diffCall.called = "forward"
  /\ diffCall.oldItems = <<"A", "B", "A">>
  /\ diffCall.newItems = <<"B", "A", "A">>
  /\ diffCall.result = NoDiff

\* C14: the additions of diff(A, B) are the removals of diff(B, A), and the
\* removals of diff(A, B) are the additions of diff(B, A), as sets of entries.
C14_DiffSymmetry ==
  diffCall.called = "both" =>
    /\ Range(diffCall.result.added) = Range(diffCall.reverse.removed)
    /\ Range(diffCall.result.removed) = Range(diffCall.reverse.added)

C14_Witness ==
  /\ diffCall.called = "both"
  /\ diffCall.oldItems = <<"A">>
  /\ diffCall.newItems = <<"B", "B">>
  /\ diffCall.result = [added |-> <<"B x2">>, removed |-> <<"A x1">>]
  /\ diffCall.reverse = [added |-> <<"A x1">>, removed |-> <<"B x2">>]

\* ================================================ bodies without the lists
\* C15: a 2xx response whose body lacks assets or descriptions makes
\* fetchInventory return the empty list, not null, on any attempt; and a
\* sweep step that got the empty list ends with the empty list stored for
\* the id, having sent the removals when the stored list was not empty and
\* a channel to post to was found.
C15_MissingListsStoredAsEmpty ==
  [][/\ \A r \in Responses, k \in 1..maxRetries :
          (Outcome(r) = "ok" /\ (r.assets = Missing \/ r.descriptions = Missing))
          => FetchAttempt(k, r) = ReturnOf(<<>>)
     /\ \A s \in Sweeps :
          (Completes(s) /\ step'[s].newItems = <<>>)
          => /\ Get(lastInventories', step'[s].steamId) = <<>>
             /\ (HasPrior(step'[s].prior) /\ step'[s].chan = "text")
                => /\ step'[s].msg.removed # <<>>
                   /\ sends'[s][step'[s].steamId] =
                        sends[s][step'[s].steamId] + 1]_vars

\* ======================================================== the state store
\* A process is in a loop iteration for id a: between the call of
\* fetchInventory(a) and the end of the iteration.
StepInProgress(a) ==
  \E p \in Procs :
    /\ pc[p] \in {"request", "delay", "returned", "lookup"}
    /\ idx[p] # 0
    /\ STEAM_IDS[idx[p]] = a

\* C16: whenever no loop iteration for an id is in progress, the store has
\* no entry for the id if no fetch for it ever returned a list, and
\* otherwise holds exactly the list returned by the most recent fetch for
\* it that returned one: never an older list.
C16_StoreHoldsLatestFetch ==
  \A a \in Accounts :
    ~StepInProgress(a) => Get(lastInventories, a) = latest[a]

\* ================================================== duplicate notifications
\* Sweep s hands a change notification to the channel in this step.
Notifies(s) ==
  /\ pc[s] = "lookup"
  /\ sends'[s][step[s].steamId] = sends[s][step[s].steamId] + 1

\* C19: when a sweep sends a notification for an id, the list it diffed
\* against is still the stored one, the fetched list replaces it in the same
\* step, and no other sweep is holding a diff against that same stored list
\* for the id: no transition is notified twice.
C19_NoDuplicateNotification ==
  [][\A s \in Sweeps :
       Notifies(s) =>
         /\ Get(lastInventories, step[s].steamId) = step[s].prior
         /\ Get(lastInventories', step[s].steamId) = step[s].newItems
         /\ \A t \in Sweeps \ {s} :
              ~(/\ pc[t] = "lookup"
                /\ step[t].steamId = step[s].steamId
                /\ step[t].prior = step[s].prior)]_vars

\* ================================================= the lightweight variant
\* C20: in the lightweight variant, an invocation of checkChanges that met a
\* stored list and fetched a list with the same names in other numbers
\* (such as A, A and then A) sends a notification that reports every name
\* whose count changed.
C20_LiteComparesMultisets ==
  [][(/\ liteStep' # liteStep
      /\ ~Failed(liteStep'.items)
      /\ liteStep'.prior # <<>>
      /\ Range(liteStep'.prior) = Range(liteStep'.items)
      /\ ~SameMultiset(liteStep'.prior, liteStep'.items))
     => /\ liteStep'.sent
        /\ \A x \in Items :
             /\ Occurrences(liteStep'.items, x) > Occurrences(liteStep'.prior, x)
                => x \in Range(liteStep'.added)
             /\ Occurrences(liteStep'.items, x) < Occurrences(liteStep'.prior, x)
                => x \in Range(liteStep'.removed)]_vars

\* ============================================================== startup
\* C11: until the ready handler has gone through its whole initial loop and
\* its channel lookup, the timer is not set and no invocation of checkChanges
\* has started; each of its steps stores a fetched list under its id and
\* leaves a failed id absent, and the handler never calls diffInventories,
\* never looks the channel up for a notification and sends none.
C11_BaselineBeforeSweeps ==
  [][/\ pc'[Ready] # "done"
        => ~timerSet' /\ \A s \in Sweeps : pc'[s] = "idle"
     /\ sends'[Ready] = NoSends
     /\ ~step'[Ready].diffed
     /\ step'[Ready].msg = NoMsg
     /\ pc'[Ready] # "lookup"
     /\ Resumes(Ready)
        => IF Failed(newItems[Ready])
           THEN /\ lastInventories' = lastInventories
                /\ STEAM_IDS[idx[Ready]] \notin DOMAIN lastInventories'
           ELSE lastInventories' =
                  Put(lastInventories, STEAM_IDS[idx[Ready]], newItems[Ready])]_vars

C11_Witness ==
  /\ pc[Ready] = "testChannel"
  /\ DOMAIN lastInventories = {STEAM_IDS[1]}
  /\ lastInventories[STEAM_IDS[1]] = <<"A">>
  /\ fetched[Ready] = Accounts
  /\ ~timerSet

====
